---- MODULE Spec2Model ----
(***************************************************************************)
(* Leave-request lifecycle of the workforce-management backend:            *)
(* LeaveRequestService (create / update status / cancel), the              *)
(* LeaveRequestRepository queries, the RabbitMQ consumer and the           *)
(* leaveRequestProcessor auto-approval worker.                             *)
(*                                                                         *)
(* Every `await` of the JavaScript source is a point where another request *)
(* or the consumer may run, so each handler is split into one action per   *)
(* awaited store / queue call.                                             *)
(***************************************************************************)
EXTENDS Integers, Sequences, FiniteSets, TLC

(* ------------------------------ bounds --------------------------------- *)
NumCallers == 2          \* concurrent createLeaveRequest calls in flight
MaxId      == 2          \* leave_requests rows ever inserted (auto-increment)
MaxDay     == 5          \* last calendar day a request may name
MaxQueue   == 1          \* messages waiting in the broker queue
MaxClock   == 1          \* ticks of the timestamp clock
NumKeys    == 1          \* distinct caller-supplied idempotency keys
MaxTz      == 2          \* server time-zone offsets -MaxTz..MaxTz (hours)
OverlapDays == 8         \* calendar days 1..OverlapDays of the overlap queries

(* ------------------------- program constants --------------------------- *)
AUTO_APPROVE_DAYS_THRESHOLD == 2
HOURS_IN_DAY == 24
DAYS_IN_YEAR == 365      \* calendar years without leap days, year 0 starting at hour 0
Today == 1               \* the calendar day on which the main specification runs

NULL == 0
PENDING          == "PENDING"
PENDING_APPROVAL == "PENDING_APPROVAL"
APPROVED         == "APPROVED"
REJECTED         == "REJECTED"
LEAVE_REQUEST_STATUS == {PENDING, PENDING_APPROVAL, APPROVED, REJECTED}
LEAVE_REQUESTED == "leave.requested"
LEAVE_APPROVED  == "leave.approved"

Callers   == 1..NumCallers
Ids       == 1..MaxId
\* date ranges submitted by callers: as long as the threshold, longer than it
\* and disjoint from the first, starting in the past, and inverted
InputRanges == {<<1, 2>>, <<3, MaxDay>>, <<0, 1>>, <<2, 1>>}
Employees == 1..2        \* employee ids a request may name
InitialEmployees == {1}  \* rows of table employees at start-up
TzOffsets == (0 - MaxTz)..MaxTz
ClientKeys == {<<"c", n>> : n \in 1..NumKeys}
NoKey     == <<"g", 0>>  \* no key supplied: crypto.randomBytes(16) is drawn
StatusInputs == LEAVE_REQUEST_STATUS \cup {"BOGUS"}
\* employeeId of a cancel request as express.json()/urlencoded() hands it over:
\* a JSON number or a numeric string
BodyIds   == {[t |-> ty, v |-> e] : ty \in {"num", "str"}, e \in Employees}

VARIABLES
  employees,   \* ids of the rows of table employees
  store,       \* table leave_requests: id -> row
  nextId,      \* next auto-increment id
  queue,       \* messages waiting in the bound queue (routing key leave.*)
  calls,       \* per caller: the service call in progress and its last result
  cpc,         \* consumer: position inside the message callback
  cur,         \* consumer: message being handled and the re-fetched decision
  clock,       \* timestamp source for processedAt
  nowH,        \* wall clock, hours since epoch (UTC)
  tz,          \* server time-zone offset in hours (local = UTC + tz)
  last,        \* the observed service call that completed in the last step, and its outcome
  watch,       \* which service operation's responses are observed in `last`
  deliveries,  \* consumeMessages: every delivery made to the message callback
  timers,      \* consumeMessages: re-publications scheduled with setTimeout
  connection,  \* rabbitmq.js: the cached connection, or NULL
  channel,     \* rabbitmq.js: the cached channel (the connection it is on), or NULL
  sockets,     \* the connections ever opened to the broker, and whether each is open
  reconnects,  \* rabbitmq.js: setTimeout(connect, 5000) timers not yet fired
  closed,      \* rabbitmq.js: closeConnection has run to its end
  requestCounts, \* rateLimiter.js: the map key -> {count, resetTime}
  nowMs,       \* Date.now() as the rate limiter reads it
  passed       \* per key and instant: how many requests the limiter let through

\* the state of the modules around the leave-request service
infra == <<deliveries, timers, connection, channel, sockets, reconnects, closed,
           requestCounts, nowMs, passed>>

vars == <<employees, store, nextId, queue, calls, cpc, cur, clock, nowH, tz, last, watch,
          infra>>

\* the parts of the state one module owns
serviceVars == <<employees, store, nextId, calls, cpc, cur, clock, nowH, tz, last, watch>>
consumerVars == <<deliveries, timers>>
amqpVars == <<connection, channel, sockets, reconnects, closed>>
limiterVars == <<requestCounts, nowMs, passed>>

(* ------------------------------ helpers -------------------------------- *)
Row(emp, s, e, st, pa, key, ca) ==
  [employeeId |-> emp, startDate |-> s, endDate |-> e, status |-> st,
   processedAt |-> pa, idempotencyKey |-> key, createdAt |-> ca]

\* the object returned by getEmployeeStats
Stats(total, approved, pending, rejected, totalDays) ==
  [total |-> total, approved |-> approved, pending |-> pending,
   rejected |-> rejected, totalDays |-> totalDays]
NoStats == Stats(0, 0, 0, 0, 0)

NoRes == [kind |-> "none", err |-> "", id |-> NULL, dup |-> FALSE, stats |-> NoStats]
Ok(id, dup) == [kind |-> "ok", err |-> "", id |-> id, dup |-> dup, stats |-> NoStats]
OkStats(stats) == [kind |-> "ok", err |-> "", id |-> NULL, dup |-> FALSE, stats |-> stats]
Err(e) == [kind |-> "err", err |-> e, id |-> NULL, dup |-> FALSE, stats |-> NoStats]

\* fields of the request data beyond employeeId, startDate, endDate, idempotencyKey
NoExtra == [status |-> "", processedAt |-> NULL]

IdleCall == [pc |-> "idle", op |-> "", emp |-> 0, s |-> 0, e |-> 0, key |-> NoKey,
             id |-> NULL, st |-> "", year |-> 0, prior |-> NULL, extra |-> NoExtra]

\* a completed call: its arguments and what it returned or threw
Done(c, res) == [op |-> c.op, emp |-> c.emp, s |-> c.s, e |-> c.e, key |-> c.key,
                 id |-> c.id, st |-> c.st, year |-> c.year, prior |-> c.prior,
                 res |-> res]
NoLast == Done(IdleCall, NoRes)

\* a message in the queue: routing key, the id of its JSON body, the
\* x-retry-count header (absent = 0), and whether the body parses as JSON
Msg(rk, id) == [rk |-> rk, id |-> id, retry |-> 0, json |-> TRUE]
NoMsg == Msg("", NULL)
IdleCur == [msg |-> NoMsg, next |-> "", duration |-> NULL]

\* a date value that does not parse: new Date(x).getTime() is NaN
InvalidDate == 0 - 1

\* new Date("YYYY-MM-DD"): a date-only ISO string is parsed as UTC midnight
ParseDate(d) == d * HOURS_IN_DAY

\* new Date().setHours(0,0,0,0): midnight of the server's LOCAL day, as an instant
StartOfLocalDay(now, zone) == ((now + zone) \div HOURS_IN_DAY) * HOURS_IN_DAY - zone

IsPastDate(s, now, zone) == ParseDate(s) < StartOfLocalDay(now, zone)

Between(x, lo, hi) == lo <= x /\ x <= hi

\* variant: the query without its containment disjunct
FindOverlappingNoContainment(st, emp, s, e, excludeId) ==
  {i \in DOMAIN st :
      /\ st[i].employeeId = emp
      /\ st[i].status \in {APPROVED, PENDING_APPROVAL}
      /\ \/ Between(st[i].startDate, s, e)
         \/ Between(st[i].endDate, s, e)
      /\ (excludeId # NULL => i # excludeId)}

\* LeaveRequestRepository.findOverlapping
FindOverlapping(st, emp, s, e, excludeId) ==
  {i \in DOMAIN st :
      /\ st[i].employeeId = emp
      /\ st[i].status \in {APPROVED, PENDING_APPROVAL}
      /\ \/ Between(st[i].startDate, s, e)
         \/ Between(st[i].endDate, s, e)
         \/ (st[i].startDate <= s /\ st[i].endDate >= e)
      /\ (excludeId # NULL => i # excludeId)}

\* LeaveRequestRepository.findByIdempotencyKey
FindByIdempotencyKey(st, key) == {i \in DOMAIN st : st[i].idempotencyKey = key}

\* variant: the update also clears the idempotency key
UpdateStatusClearsKey(st, id, status, at) ==
  [i \in DOMAIN st |->
     IF i = id THEN [st[i] EXCEPT !.status = status, !.processedAt = at,
                                  !.idempotencyKey = NoKey]
     ELSE st[i]]

\* LeaveRequestRepository.updateStatus: UPDATE ... SET status, processed_at
\* WHERE id = ?
UpdateStatus(st, id, status, at) ==
  [i \in DOMAIN st |->
     IF i = id THEN [st[i] EXCEPT !.status = status, !.processedAt = at] ELSE st[i]]

\* LeaveRequestRepository.delete: DELETE ... WHERE id = ?
Delete(st, id) == [i \in DOMAIN st \ {id} |-> st[i]]

\* Math.ceil(x / d)
Ceil(x, d) == 0 - ((0 - x) \div d)

\* calculateLeaveDuration on two stored DATEONLY values
\* variant: the duration without Math.max(1, ...)
CalculateLeaveDurationNoFloor(s, e) ==
  IF s = InvalidDate \/ e = InvalidDate THEN NULL
  ELSE Ceil(ParseDate(e) - ParseDate(s), HOURS_IN_DAY) + 1

CalculateLeaveDuration(s, e) ==
  IF s = InvalidDate \/ e = InvalidDate THEN NULL
  ELSE LET days == Ceil(ParseDate(e) - ParseDate(s), HOURS_IN_DAY)
       IN IF days + 1 > 1 THEN days + 1 ELSE 1

\* variant: the threshold compared with < instead of <=
NextStatusStrict(s, e) ==
  IF CalculateLeaveDuration(s, e) < AUTO_APPROVE_DAYS_THRESHOLD
  THEN APPROVED ELSE PENDING_APPROVAL

\* variant: the days between the two dates compared, the last day not counted
NextStatusExclusiveSpan(s, e) ==
  IF CalculateLeaveDuration(s, e) - 1 <= AUTO_APPROVE_DAYS_THRESHOLD
  THEN APPROVED ELSE PENDING_APPROVAL

\* autoProcessLeaveRequest: classification of a PENDING request
NextStatus(s, e) ==
  IF CalculateLeaveDuration(s, e) <= AUTO_APPROVE_DAYS_THRESHOLD
  THEN APPROVED ELSE PENDING_APPROVAL

\* publishMessage: the message reaches the exchange and is routed by the
\* 'leave.*' binding into the queue, or the call throws
Publish(q, ok, rk, id) ==
  IF ok /\ Len(q) < MaxQueue THEN Append(q, Msg(rk, id)) ELSE q

\* the create call that inserted row i has returned to its caller
Returned(i) == \A p \in Callers : ~(calls[p].op = "create" /\ calls[p].id = i)

InFlightCreates == Cardinality({p \in Callers : calls[p].pc \in {"check", "insert"}})

(* ------------------------------- Init ---------------------------------- *)
\* the modules around the service as they are loaded: no delivery made, no
\* timer set, no connection or channel cached, an empty rate-limit map
InfraInit ==
  /\ deliveries = <<>>
  /\ timers = <<>>
  /\ connection = NULL
  /\ channel = NULL
  /\ sockets = <<>>
  /\ reconnects = 0
  /\ closed = FALSE
  /\ requestCounts = <<>>
  /\ nowMs = 0
  /\ passed = <<>>

\* the system after start-up, its responses to operation w being observed
Start(w) ==
  /\ employees = InitialEmployees
  /\ store = <<>>
  /\ nextId = 1
  /\ queue = <<>>
  /\ calls = [p \in Callers |-> IdleCall]
  /\ cpc = "idle"
  /\ cur = IdleCur
  /\ clock = 1
  /\ nowH = Today * HOURS_IN_DAY + 12
  /\ tz = 0
  /\ last = NoLast
  /\ watch = w
  /\ InfraInit

Init == Start("create")

\* a call either moves on to its next awaited step or completes with a result
Observe(c, res) == IF c.op = watch THEN Done(c, res) ELSE NoLast

Step(p, c, res) ==
  /\ IF res = NoRes
     THEN calls' = [calls EXCEPT ![p] = c] /\ last' = NoLast
     ELSE calls' = [calls EXCEPT ![p] = IdleCall] /\ last' = Observe(c, res)
  /\ UNCHANGED <<watch, infra>>

\* new Date() at a write: timestamps never go back
Advance(t) == IF t < MaxClock + 1 THEN t + 1 ELSE t

\* variant: the dates validated before the employee is looked up
ValidateCreateDatesFirst(emps, emp, s, e, now, zone) ==
  IF ParseDate(s) > ParseDate(e) THEN Err("InvalidDates")
  ELSE IF emp \notin emps THEN Err("NotFound")
  ELSE IF IsPastDate(s, now, zone) THEN Err("PastDate")
  ELSE NoRes

(* ------------------- LeaveRequestService.createLeaveRequest ------------ *)
\* lines 22-39: employee existence, then the two date checks
ValidateCreate(emps, emp, s, e, now, zone) ==
  IF emp \notin emps THEN Err("NotFound")
  ELSE IF ParseDate(s) > ParseDate(e) THEN Err("InvalidDates")
  ELSE IF IsPastDate(s, now, zone) THEN Err("PastDate")
  ELSE NoRes

\* createLeaveRequest(leaveRequestData) with the whole request body
CreateStartWith(p, emp, s, e, key, extra) ==
  /\ calls[p].pc = "idle"
  /\ nextId + InFlightCreates <= MaxId
  /\ LET hit == {i \in FindByIdempotencyKey(store, key) :
                    /\ Returned(i)
                    /\ store[i].employeeId = emp
                    /\ store[i].startDate = s
                    /\ store[i].endDate = e}
         c == [IdleCall EXCEPT !.pc = "check", !.op = "create",
                               !.emp = emp, !.s = s, !.e = e, !.key = key,
                               !.extra = extra,
                               !.prior = IF hit = {} THEN NULL ELSE CHOOSE i \in hit : TRUE]
     IN Step(p, c, ValidateCreate(employees, emp, s, e, nowH, tz))
  /\ UNCHANGED <<employees, store, nextId, queue, cpc, cur, clock, nowH, tz>>

\* a request body holding only the documented fields
CreateStart(p, emp, s, e, key) == CreateStartWith(p, emp, s, e, key, NoExtra)

\* lines 41-50: overlap check against the active requests
CheckOverlap(st, c) ==
  IF FindOverlapping(st, c.emp, c.s, c.e, NULL) # {} THEN Err("Conflict") ELSE NoRes

\* lines 52-68: lookup by idempotency key, duplicate short-circuit
CheckIdempotency(st, c) ==
  LET existing == FindByIdempotencyKey(st, c.key)
  IN IF existing # {} THEN Ok(CHOOSE i \in existing : TRUE, TRUE) ELSE NoRes

\* lines 41-68. The two reads (findOverlapping, findByIdempotencyKey) are taken
\* together: a write landing between them gives an outcome that the same write
\* landing before or after both also gives.
CheckCreate(st, c) ==
  IF CheckOverlap(st, c) # NoRes THEN CheckOverlap(st, c) ELSE CheckIdempotency(st, c)

\* variant: the "leave.requested" event published again for a duplicate
CreateCheckRepublish(p) ==
  /\ calls[p].pc = "check"
  /\ Step(p, [calls[p] EXCEPT !.pc = "insert"], CheckCreate(store, calls[p]))
  /\ queue' = IF CheckCreate(store, calls[p]).dup
               THEN Publish(queue, TRUE, LEAVE_REQUESTED, CheckCreate(store, calls[p]).id)
               ELSE queue
  /\ UNCHANGED <<employees, store, nextId, cpc, cur, clock, nowH, tz>>

CreateCheck(p) ==
  /\ calls[p].pc = "check"
  /\ Step(p, [calls[p] EXCEPT !.pc = "insert"], CheckCreate(store, calls[p]))
  /\ UNCHANGED <<employees, store, nextId, queue, cpc, cur, clock, nowH, tz>>

\* variant: a table without the unique index on idempotency_key
InsertErrorNoUnique(emps, st, emp, key) ==
  IF emp \notin emps THEN Err("ForeignKey") ELSE NoRes

\* variant: a table without the foreign key on employee_id
InsertErrorNoForeignKey(emps, st, emp, key) ==
  IF FindByIdempotencyKey(st, key) # {} THEN Err("UniqueConstraint") ELSE NoRes

\* LeaveRequest.create: INSERT under the foreign key on employee_id and the
\* unique index on idempotency_key; the error is rethrown by the catch of
\* createLeaveRequest (lines 104-107)
InsertError(emps, st, emp, key) ==
  IF emp \notin emps THEN Err("ForeignKey")
  ELSE IF FindByIdempotencyKey(st, key) # {} THEN Err("UniqueConstraint")
  ELSE NoRes

\* lines 70-75: create({ ...leaveRequestData, status: PENDING, idempotencyKey });
\* the spread hands every field of the request body to LeaveRequest.create,
\* status alone is overridden
CreateInsert(p) ==
  /\ calls[p].pc = "insert"
  /\ LET c == calls[p]
         key == IF c.key = NoKey THEN <<"g", nextId>> ELSE c.key
         err == InsertError(employees, store, c.emp, key)
     IN /\ Step(p, [c EXCEPT !.pc = "publish", !.id = nextId], err)
        /\ IF err = NoRes
           THEN /\ store' = store @@ (nextId :> Row(c.emp, c.s, c.e, PENDING, c.extra.processedAt, key, nowH))
                /\ nextId' = nextId + 1
           ELSE UNCHANGED <<store, nextId>>
  /\ UNCHANGED <<employees, queue, cpc, cur, clock, nowH, tz>>

\* variant: a failed publish is thrown to the caller
CreatePublishSurfacing(p, ok) ==
  /\ calls[p].pc = "publish"
  /\ queue' = Publish(queue, ok, LEAVE_REQUESTED, calls[p].id)
  /\ Step(p, [calls[p] EXCEPT !.pc = "refetch"],
          IF ok THEN NoRes ELSE Err("QueueUnavailable"))
  /\ UNCHANGED <<employees, store, nextId, cpc, cur, clock, nowH, tz>>

\* lines 79-95: publish "leave.requested"; a failure is logged and swallowed
CreatePublish(p, ok) ==
  /\ calls[p].pc = "publish"
  /\ queue' = Publish(queue, ok, LEAVE_REQUESTED, calls[p].id)
  /\ Step(p, [calls[p] EXCEPT !.pc = "refetch"], NoRes)
  /\ UNCHANGED <<employees, store, nextId, cpc, cur, clock, nowH, tz>>

\* lines 97-103: re-fetch with employee details and return
CreateRefetch(p) ==
  /\ calls[p].pc = "refetch"
  /\ Step(p, calls[p], Ok(IF calls[p].id \in DOMAIN store THEN calls[p].id ELSE NULL, FALSE))
  /\ UNCHANGED <<employees, store, nextId, queue, cpc, cur, clock, nowH, tz>>

(* --------------- LeaveRequestService.updateLeaveRequestStatus ---------- *)
\* variant: the status value is not validated
ValidateUpdateAnyStatus(st, id, status) ==
  IF id \notin DOMAIN st THEN Err("NotFound") ELSE NoRes

ValidateUpdate(st, id, status) ==
  IF id \notin DOMAIN st THEN Err("NotFound")
  ELSE IF status \notin LEAVE_REQUEST_STATUS THEN Err("InvalidStatus")
  ELSE NoRes

\* lines 202-229: existence check, status validation, updateStatus, re-fetch
UpdateLeaveRequestStatus(id, status) ==
  LET res == ValidateUpdate(store, id, status)
  IN /\ IF res = NoRes
        THEN /\ store' = UpdateStatus(store, id, status, clock)
             /\ clock' = Advance(clock)
             /\ last' = Observe([IdleCall EXCEPT !.op = "update", !.id = id, !.st = status],
                                Ok(id, FALSE))
        ELSE /\ last' = Observe([IdleCall EXCEPT !.op = "update", !.id = id, !.st = status], res)
             /\ UNCHANGED <<store, clock>>
     /\ UNCHANGED <<employees, nextId, queue, calls, cpc, cur, nowH, tz, watch, infra>>

(* ------------------ LeaveRequestService.cancelLeaveRequest ------------- *)
\* leaveRequest.employeeId !== employeeId : strict inequality, no conversion
StrictNotEqual(rowEmp, bodyId) == ~(bodyId.t = "num" /\ bodyId.v = rowEmp)

ValidateCancel(st, id, bodyId) ==
  IF id \notin DOMAIN st THEN Err("NotFound")
  ELSE IF StrictNotEqual(st[id].employeeId, bodyId) THEN Err("Unauthorized")
  ELSE IF st[id].status = REJECTED THEN Err("InvalidState")
  ELSE NoRes

\* lines 237-265: findById, the three checks, delete
CancelLeaveRequest(id, bodyId) ==
  LET res == ValidateCancel(store, id, bodyId)
  IN /\ IF res = NoRes
        THEN /\ store' = Delete(store, id)
             /\ last' = Observe([IdleCall EXCEPT !.op = "cancel", !.id = id, !.emp = bodyId.v],
                                Ok(id, FALSE))
        ELSE /\ last' = Observe([IdleCall EXCEPT !.op = "cancel", !.id = id, !.emp = bodyId.v], res)
             /\ UNCHANGED store
     /\ UNCHANGED <<employees, nextId, queue, calls, cpc, cur, clock, nowH, tz, watch, infra>>

(* --------------- LeaveRequestService.getEmployeeLeaveStats ------------- *)
\* new Date(year, 0, 1): local midnight of 1 January, as an instant
StartOfYear(year, zone) == year * DAYS_IN_YEAR * HOURS_IN_DAY - zone

\* new Date(year, 11, 31): local midnight of 31 December, as an instant
EndOfYear(year, zone) == StartOfYear(year + 1, zone) - HOURS_IN_DAY

\* getEmployeeStats lines 248-256: WHERE employeeId = ? AND createdAt BETWEEN ? AND ?
SelectForYear(st, emp, year, zone) ==
  {i \in DOMAIN st : /\ st[i].employeeId = emp
                     /\ Between(st[i].createdAt, StartOfYear(year, zone), EndOfYear(year, zone))}

\* getEmployeeStats lines 267-269: Math.ceil((end - start) / day) + 1
SpanDays(r) == Ceil(ParseDate(r.endDate) - ParseDate(r.startDate), HOURS_IN_DAY) + 1

RECURSIVE SumSpanDays(_, _)
SumSpanDays(st, ids) ==
  IF ids = {} THEN 0
  ELSE LET i == CHOOSE j \in ids : TRUE
       IN SpanDays(st[i]) + SumSpanDays(st, ids \ {i})

\* variant: PENDING_APPROVAL requests left out of the pending count
GetEmployeeStatsPendingOnly(st, emp, year, zone) ==
  LET requests == SelectForYear(st, emp, year, zone)
      approved == {i \in requests : st[i].status = APPROVED}
  IN Stats(Cardinality(requests),
           Cardinality(approved),
           Cardinality({i \in requests : st[i].status = PENDING}),
           Cardinality({i \in requests : st[i].status = REJECTED}),
           SumSpanDays(st, approved))

\* LeaveRequestRepository.getEmployeeStats
GetEmployeeStats(st, emp, year, zone) ==
  LET requests == SelectForYear(st, emp, year, zone)
      approved == {i \in requests : st[i].status = APPROVED}
  IN Stats(Cardinality(requests),
           Cardinality(approved),
           Cardinality({i \in requests : st[i].status \in {PENDING, PENDING_APPROVAL}}),
           Cardinality({i \in requests : st[i].status = REJECTED}),
           SumSpanDays(st, approved))

\* lines 273-291: existence check, then the store aggregation
GetEmployeeLeaveStats(emp, year) ==
  /\ last' = Observe([IdleCall EXCEPT !.op = "stats", !.emp = emp, !.year = year],
                     IF emp \notin employees THEN Err("NotFound")
                     ELSE OkStats(GetEmployeeStats(store, emp, year, tz)))
  /\ UNCHANGED <<employees, store, nextId, queue, calls, cpc, cur, clock, nowH, tz, watch, infra>>

(* ----------------------- EmployeeService.deleteEmployee ---------------- *)
\* DELETE FROM employees; leave_requests rows go with it (ON DELETE CASCADE)
DeleteEmployee(emp) ==
  /\ emp \in employees
  /\ employees' = employees \ {emp}
  /\ store' = [i \in {j \in DOMAIN store : store[j].employeeId # emp} |-> store[i]]
  /\ last' = NoLast
  /\ UNCHANGED <<watch, infra, nextId, queue, calls, cpc, cur, clock, nowH, tz>>

(* --------------------------- the consumer ------------------------------ *)
\* variant: no routing-key filter
AcceptsAnyKey(m) == m.id # NULL

\* variant: the filter names the processor's own event
AcceptsApprovedKey(m) == m.rk = LEAVE_APPROVED /\ m.id # NULL

\* handleQueueMessage lines 74-86: routing-key filter and id check
Accepts(m) == m.rk = LEAVE_REQUESTED /\ m.id # NULL

\* variant: no status gate, any stored record is processed
ProcessableAnyStatus(st, id) == id \in DOMAIN st

\* autoProcessLeaveRequest line 30: only a PENDING record is processed
Processable(st, id) == id \in DOMAIN st /\ st[id].status = PENDING

\* consumeMessages callback (lines 130-135), handleQueueMessage (lines 73-95)
\* and autoProcessLeaveRequest lines 30-49: the message is taken, filtered,
\* the record re-fetched, its duration computed and the record classified; a
\* message that is not processed (wrong key, no id, record gone or not
\* PENDING, duration undeterminable) is acknowledged at once
Deliver ==
  /\ cpc = "idle"
  /\ queue # <<>>
  /\ queue' = Tail(queue)
  /\ LET m == Head(queue)
         duration == CalculateLeaveDuration(store[m.id].startDate, store[m.id].endDate)
     IN IF Accepts(m) /\ Processable(store, m.id) /\ duration # NULL
        THEN /\ cpc' = "write"
             /\ cur' = [msg |-> m, duration |-> duration,
                        next |-> NextStatus(store[m.id].startDate, store[m.id].endDate)]
        ELSE cpc' = "idle" /\ cur' = IdleCur
  /\ last' = NoLast
  /\ UNCHANGED <<watch, infra, employees, store, nextId, calls, clock, nowH, tz>>

\* autoProcessLeaveRequest line 51: updateStatus(leaveRequest.id, nextStatus)
Write ==
  /\ cpc = "write"
  /\ store' = UpdateStatus(store, cur.msg.id, cur.next, clock)
  /\ clock' = Advance(clock)
  /\ IF cur.next = APPROVED
     THEN cpc' = "publish" /\ cur' = cur
     ELSE cpc' = "idle" /\ cur' = IdleCur
  /\ last' = NoLast
  /\ UNCHANGED <<watch, infra, employees, nextId, queue, calls, nowH, tz>>

\* autoProcessLeaveRequest lines 58-70: publish "leave.approved", then ack
PublishApproved(ok) ==
  /\ cpc = "publish"
  /\ queue' = Publish(queue, ok, LEAVE_APPROVED, cur.msg.id)
  /\ cpc' = "idle"
  /\ cur' = IdleCur
  /\ last' = NoLast
  /\ UNCHANGED <<watch, infra, employees, store, nextId, calls, clock, nowH, tz>>

\* at-least-once delivery (consume with noAck: false): the broker queues the
\* message that is being handled once more
Redeliver ==
  /\ cpc # "idle"
  /\ Len(queue) < MaxQueue
  /\ queue' = Append(queue, cur.msg)
  /\ last' = NoLast
  /\ UNCHANGED <<watch, infra, employees, store, nextId, calls, cpc, cur, clock, nowH, tz>>

Next ==
  \/ \E p \in Callers, emp \in Employees, r \in InputRanges, key \in ClientKeys \cup {NoKey} :
        CreateStart(p, emp, r[1], r[2], key)
  \/ \E p \in Callers : CreateCheck(p)
  \/ \E p \in Callers : CreateInsert(p)
  \/ \E p \in Callers, ok \in BOOLEAN : CreatePublish(p, ok)
  \/ \E p \in Callers : CreateRefetch(p)
  \/ \E id \in Ids, status \in StatusInputs : UpdateLeaveRequestStatus(id, status)
  \/ \E id \in Ids, bodyId \in BodyIds : CancelLeaveRequest(id, bodyId)
  \/ \E emp \in Employees : DeleteEmployee(emp)
  \/ Deliver
  \/ Write
  \/ \E ok \in BOOLEAN : PublishApproved(ok)
  \/ Redeliver

Spec == Init /\ [][Next]_vars

(* ---- cancellation against a server that runs one create at a time ----- *)
InitCancel == Start("cancel")

NextCancel ==
  \/ \E emp \in Employees, r \in InputRanges, key \in ClientKeys \cup {NoKey} :
        CreateStart(1, emp, r[1], r[2], key)
  \/ CreateCheck(1)
  \/ CreateInsert(1)
  \/ \E ok \in BOOLEAN : CreatePublish(1, ok)
  \/ CreateRefetch(1)
  \/ \E id \in Ids, status \in StatusInputs : UpdateLeaveRequestStatus(id, status)
  \/ \E id \in Ids, bodyId \in BodyIds : CancelLeaveRequest(id, bodyId)
  \/ \E emp \in Employees : DeleteEmployee(emp)
  \/ Deliver
  \/ Write
  \/ \E ok \in BOOLEAN : PublishApproved(ok)
  \/ Redeliver

SpecCancel == InitCancel /\ [][NextCancel]_vars

(* ---- status updates against a server that runs one create at a time --- *)
InitUpdate == Start("update")

SpecUpdate == InitUpdate /\ [][NextCancel]_vars

(* ------------- findOverlapping queried against any stored row ---------- *)
\* well-formed ranges (start <= end) of the days 1..OverlapDays
OverlapRanges == {r \in (1..OverlapDays) \X (1..OverlapDays) : r[1] <= r[2]}

InitOverlap ==
  /\ employees = Employees
  /\ \E emp \in Employees, r \in OverlapRanges, status \in LEAVE_REQUEST_STATUS :
        store = (1 :> Row(emp, r[1], r[2], status, NULL, <<"g", 1>>, Today * HOURS_IN_DAY))
  /\ nextId = 2
  /\ queue = <<>>
  /\ calls = [p \in Callers |-> IdleCall]
  /\ cpc = "idle"
  /\ cur = IdleCur
  /\ clock = 1
  /\ nowH = Today * HOURS_IN_DAY + 12
  /\ tz = 0
  /\ last = NoLast
  /\ watch = "findOverlapping"
  /\ InfraInit

\* one call of LeaveRequestRepository.findOverlapping(employeeId, startDate, endDate)
FindOverlappingCall(emp, s, e) ==
  /\ LET found == FindOverlapping(store, emp, s, e, NULL)
     IN last' = Observe([IdleCall EXCEPT !.op = "findOverlapping", !.emp = emp, !.s = s, !.e = e],
                        Ok(IF found = {} THEN NULL ELSE CHOOSE i \in found : TRUE, FALSE))
  /\ UNCHANGED <<employees, store, nextId, queue, calls, cpc, cur, clock, nowH, tz, watch, infra>>

NextOverlap ==
  \E emp \in Employees, r \in OverlapRanges : FindOverlappingCall(emp, r[1], r[2])

SpecOverlap == InitOverlap /\ [][NextOverlap]_vars

(* ---- the Auto-Processor handed a PENDING record with any two dates ---- *)
DurationDates == (1..MaxDay) \cup {InvalidDate}

InitDuration ==
  /\ employees = InitialEmployees
  /\ \E s \in DurationDates, e \in DurationDates :
        store = (1 :> Row(1, s, e, PENDING, NULL, <<"g", 1>>, Today * HOURS_IN_DAY))
  /\ nextId = 2
  /\ queue = <<Msg(LEAVE_REQUESTED, 1)>>
  /\ calls = [p \in Callers |-> IdleCall]
  /\ cpc = "idle"
  /\ cur = IdleCur
  /\ clock = 1
  /\ nowH = Today * HOURS_IN_DAY + 12
  /\ tz = 0
  /\ last = NoLast
  /\ watch = "create"
  /\ InfraInit

NextDuration ==
  \/ Deliver
  \/ Write
  \/ \E ok \in BOOLEAN : PublishApproved(ok)
  \/ Redeliver

SpecDuration == InitDuration /\ [][NextDuration]_vars

(* --------- statistics over tables created around the turn of a year ---- *)
Years == 0..1
\* 1 January 00:00, 31 December 00:00, 31 December 12:00, 1 January of the next year
StatsInstants == {StartOfYear(0, 0), EndOfYear(0, 0), EndOfYear(0, 0) + 12, StartOfYear(1, 0)}
StatsRanges == {<<1, 1>>, <<1, 3>>}

\* a row as the status-update path leaves it
StatsRow(id, emp, r, status, ca) ==
  Row(emp, r[1], r[2], status, IF status = PENDING THEN NULL ELSE 1, <<"g", id>>, ca)

InitStats ==
  /\ \E emp \in Employees,
        r1 \in StatsRanges, r2 \in StatsRanges, r3 \in StatsRanges,
        s1 \in LEAVE_REQUEST_STATUS, s2 \in LEAVE_REQUEST_STATUS, s3 \in LEAVE_REQUEST_STATUS,
        c1 \in StatsInstants, c2 \in {StartOfYear(0, 0), StartOfYear(1, 0)},
        c3 \in {StartOfYear(0, 0), StartOfYear(1, 0)} :
        /\ employees = InitialEmployees \cup {emp}
        /\ store = <<StatsRow(1, 1, r1, s1, c1), StatsRow(2, 1, r2, s2, c2),
                    StatsRow(3, emp, r3, s3, c3)>>
  /\ nextId = 4
  /\ queue = <<>>
  /\ calls = [p \in Callers |-> IdleCall]
  /\ cpc = "idle"
  /\ cur = IdleCur
  /\ clock = 1
  /\ nowH = StartOfYear(1, 0) + HOURS_IN_DAY
  /\ tz = 0
  /\ last = NoLast
  /\ watch = "stats"
  /\ InfraInit

NextStats == \E emp \in Employees, year \in Years : GetEmployeeLeaveStats(emp, year)

SpecStats == InitStats /\ [][NextStats]_vars

(* ------ creates whose request body carries fields of its own choice ---- *)
ExtraFields == {NoExtra, [status |-> APPROVED, processedAt |-> 1]}

NextExtra ==
  \/ \E emp \in Employees, r \in InputRanges, key \in ClientKeys \cup {NoKey},
        extra \in ExtraFields : CreateStartWith(1, emp, r[1], r[2], key, extra)
  \/ CreateCheck(1)
  \/ CreateInsert(1)
  \/ \E ok \in BOOLEAN : CreatePublish(1, ok)
  \/ CreateRefetch(1)
  \/ \E id \in Ids, status \in StatusInputs : UpdateLeaveRequestStatus(id, status)
  \/ Deliver
  \/ Write
  \/ \E ok \in BOOLEAN : PublishApproved(ok)
  \/ Redeliver

SpecExtra == Init /\ [][NextExtra]_vars

(* ------- the date validation over a running wall clock, any zone ------- *)
InitClock ==
  /\ employees = InitialEmployees
  /\ store = <<>>
  /\ nextId = 1
  /\ queue = <<>>
  /\ calls = [p \in Callers |-> IdleCall]
  /\ cpc = "idle"
  /\ cur = IdleCur
  /\ clock = 1
  /\ nowH = Today * HOURS_IN_DAY
  /\ tz \in TzOffsets
  /\ last = NoLast
  /\ watch = "create"
  /\ InfraInit

\* an hour passes
ClockTick ==
  /\ nowH + 1 < (Today + 1) * HOURS_IN_DAY
  /\ nowH' = nowH + 1
  /\ last' = NoLast
  /\ UNCHANGED <<employees, store, nextId, queue, calls, cpc, cur, clock, tz, watch, infra>>

NextClock ==
  \/ ClockTick
  \/ \E p \in Callers, emp \in Employees, r \in InputRanges, key \in ClientKeys \cup {NoKey} :
        CreateStart(p, emp, r[1], r[2], key)

SpecClock == InitClock /\ [][NextClock]_vars

(* ------ consumeMessages: the message callback around any handler ------- *)
\* parseInt(process.env.RABBITMQ_MAX_RETRIES) || 3
MAX_RETRIES == 3
\* ch.prefetch(1)
PREFETCH_COUNT == 1

\* a delivery to the message callback: the message, whether the callback is
\* still in progress, and how often it called ch.ack and ch.nack
Delivery(m) == [msg |-> m, running |-> TRUE, ack |-> 0, nack |-> 0]

\* the messages published before the consumer starts: each has its own id,
\* carries no retry header, and its body may not be JSON
FirstMessages == {[Msg(LEAVE_REQUESTED, i) EXCEPT !.json = j] : i \in Ids, j \in BOOLEAN}
FirstQueues ==
  {<<m>> : m \in FirstMessages}
    \cup {q \in FirstMessages \X FirstMessages : q[1].id # q[2].id}

InitConsume ==
  /\ employees = InitialEmployees
  /\ store = <<>>
  /\ nextId = 1
  /\ queue \in FirstQueues
  /\ calls = [p \in Callers |-> IdleCall]
  /\ cpc = "idle"
  /\ cur = IdleCur
  /\ clock = 1
  /\ nowH = Today * HOURS_IN_DAY + 12
  /\ tz = 0
  /\ last = NoLast
  /\ watch = "consume"
  /\ InfraInit

\* deliveries the broker still waits on
Unacked == {k \in DOMAIN deliveries : deliveries[k].ack + deliveries[k].nack = 0}

\* variant: no prefetch limit set on the channel
CanDeliverNoPrefetch(unacked) == unacked >= 0

\* the broker under ch.prefetch(1) and noAck: false: it delivers while fewer
\* than the prefetch count of deliveries are unacknowledged
CanDeliver(unacked) == unacked < PREFETCH_COUNT

\* the broker hands the head of the queue to the message callback
BrokerDeliver ==
  /\ queue # <<>>
  /\ CanDeliver(Cardinality(Unacked))
  /\ queue' = Tail(queue)
  /\ deliveries' = Append(deliveries, Delivery(Head(queue)))
  /\ UNCHANGED <<serviceVars, timers, amqpVars, limiterVars>>

\* variant: the bound compared with <=
ShouldRetryInclusive(retryCount) == retryCount <= MAX_RETRIES

\* line 142: if (retryCount < maxRetries)
ShouldRetry(retryCount) == retryCount < MAX_RETRIES

\* variant: the branch at the bound only logs
CatchNacksBelowBoundOnly(retryCount) == IF ShouldRetry(retryCount) THEN 1 ELSE 0

\* the catch block, lines 145 and 163: calls of ch.nack(msg, false, false) in
\* the branch taken
CatchNacks(retryCount) == IF ShouldRetry(retryCount) THEN 1 ELSE 1

\* the message callback of delivery k runs to its end: the body is parsed, the
\* handler awaited and the message acknowledged; a body that does not parse or
\* a handler that rejects (ok = FALSE) enters the catch block, which nacks
\* without requeue and, below the retry bound, schedules the re-publication
CallbackSettles(k, ok) ==
  /\ k \in DOMAIN deliveries
  /\ deliveries[k].running
  /\ LET m == deliveries[k].msg
     IN IF m.json /\ ok
        THEN /\ deliveries' = [deliveries EXCEPT ![k].running = FALSE, ![k].ack = @ + 1]
             /\ timers' = timers
        ELSE /\ deliveries' = [deliveries EXCEPT ![k].running = FALSE,
                                                 ![k].nack = @ + CatchNacks(m.retry)]
             /\ timers' = IF ShouldRetry(m.retry) THEN Append(timers, m) ELSE timers
  /\ UNCHANGED <<serviceVars, queue, amqpVars, limiterVars>>

\* lines 148-160: the timer set first fires and publishes the message under its
\* routing key with x-retry-count one higher; the 'leave.*' binding routes it
\* back into the queue
RetryTimerFires ==
  /\ timers # <<>>
  /\ queue' = Append(queue, [Head(timers) EXCEPT !.retry = @ + 1])
  /\ timers' = Tail(timers)
  /\ UNCHANGED <<serviceVars, deliveries, amqpVars, limiterVars>>

NextConsume ==
  \/ BrokerDeliver
  \/ \E k \in 1..(MaxId * (MAX_RETRIES + 2)), ok \in BOOLEAN : CallbackSettles(k, ok)
  \/ RetryTimerFires

SpecConsume == InitConsume /\ [][NextConsume]_vars

(* ---- the queue fed by other publishers on the topic exchange as well --- *)
\* routing keys the 'leave.*' binding routes into the queue, and bodies with
\* and without an id
ForeignKeys == {LEAVE_REQUESTED, LEAVE_APPROVED, "leave.cancelled"}
ForeignIds == Ids \cup {NULL}

\* a message published to the exchange by someone else
ForeignPublish(rk, id) ==
  /\ Len(queue) < MaxQueue
  /\ queue' = Append(queue, Msg(rk, id))
  /\ last' = NoLast
  /\ UNCHANGED <<watch, infra, employees, store, nextId, calls, cpc, cur, clock, nowH, tz>>

NextForeign ==
  \/ \E emp \in Employees, r \in InputRanges, key \in ClientKeys \cup {NoKey} :
        CreateStart(1, emp, r[1], r[2], key)
  \/ CreateCheck(1)
  \/ CreateInsert(1)
  \/ \E ok \in BOOLEAN : CreatePublish(1, ok)
  \/ CreateRefetch(1)
  \/ \E id \in Ids, bodyId \in BodyIds : CancelLeaveRequest(id, bodyId)
  \/ \E rk \in ForeignKeys, id \in ForeignIds : ForeignPublish(rk, id)
  \/ Deliver
  \/ Write
  \/ \E ok \in BOOLEAN : PublishApproved(ok)
  \/ Redeliver

SpecForeign == Init /\ [][NextForeign]_vars

(* ---- creation and the consumer alone, the consumer scheduled fairly ---- *)
NextLive ==
  \/ \E emp \in Employees, r \in InputRanges, key \in ClientKeys \cup {NoKey} :
        CreateStart(1, emp, r[1], r[2], key)
  \/ CreateCheck(1)
  \/ CreateInsert(1)
  \/ \E ok \in BOOLEAN : CreatePublish(1, ok)
  \/ CreateRefetch(1)
  \/ Deliver
  \/ Write
  \/ \E ok \in BOOLEAN : PublishApproved(ok)
  \/ Redeliver

\* the message callback is an async function on the event loop: once a message
\* is in the queue it is delivered, and each awaited step of the handler
\* (the status write, the publish) completes
SpecLive ==
  /\ Init
  /\ [][NextLive]_vars
  /\ WF_vars(Deliver)
  /\ WF_vars(Write)
  /\ WF_vars(\E ok \in BOOLEAN : PublishApproved(ok))

(* -------------------- rateLimiter.js: the middleware ------------------- *)
\* scaled-down options: the standard limiter (15 min, 100 requests) and the
\* strict limiter (1 min, 10 requests), instants 0..MaxNow, and the count up
\* to which requests are sent
StandardWindow == 2
StandardMax == 2
StrictWindow == 1
StrictMax == 1
MaxNow == 3
NumClients == 2
MaxCount == 3

RateClients == 1..NumClients

\* standardRateLimiter and strictRateLimiter: two middleware instances over
\* the one module-level map
Limiters ==
  {[name |-> "standard", windowMs |-> StandardWindow, maxRequests |-> StandardMax],
   [name |-> "strict", windowMs |-> StrictWindow, maxRequests |-> StrictMax]}

InitRate ==
  /\ employees = InitialEmployees
  /\ store = <<>>
  /\ nextId = 1
  /\ queue = <<>>
  /\ calls = [p \in Callers |-> IdleCall]
  /\ cpc = "idle"
  /\ cur = IdleCur
  /\ clock = 1
  /\ nowH = Today * HOURS_IN_DAY + 12
  /\ tz = 0
  /\ last = NoLast
  /\ watch = "rateLimiter"
  /\ InfraInit

\* requests let through for key by limiter name at instant t
Passed(key, name, t) ==
  IF <<key, name, t>> \in DOMAIN passed THEN passed[<<key, name, t>>] ELSE 0

\* line 43: no entry, or the entry's window has expired
NeedsNewWindow(counts, key, now) ==
  key \notin DOMAIN counts \/ now > counts[key].resetTime

\* variant: the limit compared one too high
BlockedOneMore(count, maxRequests) == count > maxRequests + 1

\* line 58: if (requestData.count > maxRequests)
Blocked(count, maxRequests) == count > maxRequests

\* one request of client key through limiter lim (lines 36-68); `since` notes
\* when the entry was created and is read by no code
RateLimit(key, lim) ==
  /\ LET fresh == NeedsNewWindow(requestCounts, key, nowMs)
         was == IF fresh
                THEN [count |-> 0, resetTime |-> nowMs + lim.windowMs, since |-> nowMs]
                ELSE requestCounts[key]
         requestData == [was EXCEPT !.count = @ + 1]
         call == [IdleCall EXCEPT !.op = "rateLimiter", !.id = key, !.st = lim.name]
     IN /\ was.count < MaxCount
        /\ requestCounts' = (key :> requestData) @@ requestCounts
        /\ IF Blocked(requestData.count, lim.maxRequests)
           THEN /\ last' = Observe(call, Err("TooManyRequests"))
                /\ passed' = passed
           ELSE /\ last' = Observe(call, Ok(NULL, FALSE))
                /\ passed' = (<<key, lim.name, nowMs>> :> (Passed(key, lim.name, nowMs) + 1))
                                @@ passed
  /\ UNCHANGED <<employees, store, nextId, queue, calls, cpc, cur, clock, nowH, tz, watch,
                 consumerVars, amqpVars, nowMs>>

\* line 18: if (now - data.resetTime > 0)
Expired(now, data) == now - data.resetTime > 0

\* the setInterval callback, lines 15-22
RateCleanup ==
  /\ requestCounts' = [k \in {j \in DOMAIN requestCounts : ~Expired(nowMs, requestCounts[j])}
                         |-> requestCounts[k]]
  /\ last' = NoLast
  /\ UNCHANGED <<employees, store, nextId, queue, calls, cpc, cur, clock, nowH, tz, watch,
                 consumerVars, amqpVars, nowMs, passed>>

\* Date.now() moves on
RateTick ==
  /\ nowMs < MaxNow
  /\ nowMs' = nowMs + 1
  /\ last' = NoLast
  /\ UNCHANGED <<employees, store, nextId, queue, calls, cpc, cur, clock, nowH, tz, watch,
                 consumerVars, amqpVars, requestCounts, passed>>

NextRate ==
  \/ \E key \in RateClients, lim \in Limiters : RateLimit(key, lim)
  \/ RateCleanup
  \/ RateTick

SpecRate == InitRate /\ [][NextRate]_vars

(* ------------- rabbitmq.js: the cached connection and channel ---------- *)
MaxConns == 3

\* a channel is known by the number of the connection it was created on
ChannelOn(c) == c

InitAmqp == Start("amqp")

\* amqp.connect resolves (line 21): a connection is opened and cached
Connect ==
  /\ Len(sockets) < MaxConns
  /\ sockets' = Append(sockets, TRUE)
  /\ connection' = Len(sockets) + 1

\* createChannel lines 49-53, called by publishMessage or consumeMessages: the
\* cached channel is returned if there is one; else connect() is called,
\* which returns the cached connection or starts to open one
ChannelStart(p) ==
  /\ ~closed
  /\ calls[p].pc = "idle"
  /\ channel = NULL
  /\ calls' = [calls EXCEPT ![p] =
                 [IdleCall EXCEPT !.op = "createChannel", !.id = connection,
                                  !.pc = IF connection # NULL THEN "channel" ELSE "opening"]]
  /\ last' = NoLast
  /\ UNCHANGED <<employees, store, nextId, queue, cpc, cur, clock, nowH, tz, watch, infra>>

\* connect line 21 of caller p: connection = await amqp.connect(...)
ChannelOpened(p) ==
  /\ calls[p].pc = "opening"
  /\ Connect
  /\ calls' = [calls EXCEPT ![p].pc = "channel", ![p].id = connection']
  /\ last' = NoLast
  /\ UNCHANGED <<employees, store, nextId, queue, cpc, cur, clock, nowH, tz, watch>>
  /\ UNCHANGED <<consumerVars, channel, reconnects, closed, limiterVars>>

\* createChannel line 54 of caller p: channel = await conn.createChannel(),
\* which throws when conn is closed
ChannelCreated(p) ==
  /\ calls[p].pc = "channel"
  /\ channel' = IF sockets[calls[p].id] THEN ChannelOn(calls[p].id) ELSE channel
  /\ calls' = [calls EXCEPT ![p] = IdleCall]
  /\ last' = NoLast
  /\ UNCHANGED <<employees, store, nextId, queue, cpc, cur, clock, nowH, tz, watch>>
  /\ UNCHANGED <<consumerVars, connection, sockets, reconnects, closed, limiterVars>>

\* the broker or the network closes connection c: its 'close' handler (lines
\* 29-34) clears the cached connection and sets the reconnect timer
ConnectionLost(c) ==
  /\ c \in DOMAIN sockets
  /\ sockets[c]
  /\ sockets' = [sockets EXCEPT ![c] = FALSE]
  /\ connection' = NULL
  /\ reconnects' = reconnects + 1
  /\ UNCHANGED <<serviceVars, queue, consumerVars, channel, closed, limiterVars>>

\* setTimeout(connect, 5000) fires: connect() returns the cached connection or
\* opens one
ReconnectTimerFires ==
  /\ reconnects > 0
  /\ reconnects' = reconnects - 1
  /\ IF connection # NULL \/ Len(sockets) >= MaxConns
     THEN UNCHANGED <<connection, sockets>>
     ELSE Connect
  /\ UNCHANGED <<serviceVars, queue, consumerVars, channel, closed, limiterVars>>

\* closeConnection, lines 181-196: the cached channel is closed and cleared,
\* then the cached connection; closing a channel whose connection is gone
\* throws and ends the call; connection.close() emits 'close', whose handler
\* runs as for any close
CloseConnection ==
  /\ ~closed
  /\ IF channel # NULL /\ ~sockets[channel]
     THEN UNCHANGED <<connection, channel, sockets, reconnects, closed>>
     ELSE /\ channel' = NULL
          /\ connection' = NULL
          /\ closed' = TRUE
          /\ IF connection # NULL
             THEN /\ sockets' = [sockets EXCEPT ![connection] = FALSE]
                  /\ reconnects' = reconnects + 1
             ELSE UNCHANGED <<sockets, reconnects>>
  /\ UNCHANGED <<serviceVars, queue, consumerVars, limiterVars>>

NextAmqp ==
  \/ \E p \in Callers : ChannelStart(p)
  \/ \E p \in Callers : ChannelOpened(p)
  \/ \E p \in Callers : ChannelCreated(p)
  \/ \E c \in 1..MaxConns : ConnectionLost(c)
  \/ ReconnectTimerFires
  \/ CloseConnection

SpecAmqp == InitAmqp /\ [][NextAmqp]_vars

TypeOK ==
  /\ employees \subseteq Employees
  /\ DOMAIN store \subseteq Ids
  /\ nextId \in 1..(MaxId + 1)
  /\ Len(queue) <= MaxQueue
  /\ cpc \in {"idle", "write", "publish"}

(* ======================= properties of the system ====================== *)
\* inclusive day ranges [s1, e1] and [s2, e2] share at least one day
RangesOverlap(s1, e1, s2, e2) == s1 <= e2 /\ s2 <= e1

ActiveStatuses == {APPROVED, PENDING_APPROVAL}

\* the server's current calendar day
LocalDay(now, zone) == (now + zone) \div HOURS_IN_DAY

\* number of calendar days of the inclusive range [s, e]
InclusiveDays(s, e) == e - s + 1

\* rows of employee emp that are active and overlap [s, e]
ActiveOverlaps(st, emp, s, e) ==
  {i \in DOMAIN st : /\ st[i].employeeId = emp
                     /\ st[i].status \in ActiveStatuses
                     /\ RangesOverlap(st[i].startDate, st[i].endDate, s, e)}

\* the step takes the message at the head of the queue off the queue
Delivers == queue # <<>> /\ cpc = "idle" /\ queue' = Tail(queue)

(* C1: in every reachable state no two stored leave requests of the same   *)
(* employee that are both APPROVED or PENDING_APPROVAL have overlapping     *)
(* inclusive [startDate, endDate] ranges.                                   *)
C1_NoActiveOverlap ==
  \A i, j \in DOMAIN store :
     (/\ i # j
      /\ store[i].employeeId = store[j].employeeId
      /\ store[i].status \in ActiveStatuses
      /\ store[j].status \in ActiveStatuses)
     => ~RangesOverlap(store[i].startDate, store[i].endDate,
                       store[j].startDate, store[j].endDate)

(* C2: in every reachable state, concurrent creates with the same key       *)
(* included, at most one stored leave request carries a given               *)
(* idempotencyKey.                                                          *)
C2_UniqueIdempotencyKey ==
  \A i, j \in DOMAIN store :
     store[i].idempotencyKey = store[j].idempotencyKey => i = j

\* two creates with one key raced: the second insert has just been rejected
\* and the key is held by exactly one row
C2_RaceRejected ==
  /\ last.op = "create"
  /\ last.key \in ClientKeys
  /\ last.res.err = "UniqueConstraint"
  /\ Cardinality(FindByIdempotencyKey(store, last.key)) = 1

(* C3: a create repeated after the first call returned, with the same key,  *)
(* employee and dates, returns the id of the first call's record flagged as *)
(* duplicate, and exactly one row carries the key, whatever happened to the *)
(* record in between (as long as it is still stored).                       *)
C3_RetryReturnsSameRecord ==
  (/\ last.op = "create"
   /\ last.prior # NULL
   /\ last.prior \in DOMAIN store)
  => /\ last.res = Ok(last.prior, TRUE)
     /\ Cardinality(FindByIdempotencyKey(store, last.key)) = 1

(* C4: a create call that returns an existing record flagged as duplicate   *)
(* inserts no row, changes no field of any stored leave request and         *)
(* publishes no event.                                                      *)
C4_DuplicateHasNoEffect ==
  [][(last'.op = "create" /\ last'.res.dup)
     => /\ last'.res.id \in DOMAIN store
        /\ store[last'.res.id].idempotencyKey = last'.key
        /\ store' = store
        /\ queue' = queue
        /\ nextId' = nextId]_vars

\* a create has just returned a stored record flagged as duplicate
C4_DuplicateReturned ==
  /\ last.op = "create"
  /\ last.res.kind = "ok"
  /\ last.res.dup
  /\ last.res.id \in DOMAIN store

(* C5: a create call whose insert meets a row that already holds its key    *)
(* (it passed the lookup before the winner inserted) returns the winner's   *)
(* record flagged as duplicate and surfaces no error.                       *)
C5_LoserReturnsWinner ==
  [][\A p \in Callers :
       (/\ calls[p].pc = "insert"
        /\ calls'[p] # calls[p]
        /\ calls[p].key \in ClientKeys
        /\ calls[p].emp \in employees
        /\ FindByIdempotencyKey(store, calls[p].key) # {})
       => /\ last'.res.kind = "ok"
          /\ last'.res.dup
          /\ last'.res.id \in FindByIdempotencyKey(store, calls[p].key)]_vars

C7_ReplayIsNoOp ==
  [][(/\ Delivers
      /\ Head(queue).rk = LEAVE_REQUESTED
      /\ Head(queue).id \in DOMAIN store
      /\ store[Head(queue).id].status # PENDING)
     => /\ store' = store
        /\ cpc' = "idle"
        /\ cur' = IdleCur]_vars

\* the "requested" event of an already approved record waits to be handled again
C7_ReplayPending ==
  /\ cpc = "idle"
  /\ queue # <<>>
  /\ Head(queue).rk = LEAVE_REQUESTED
  /\ Head(queue).id \in DOMAIN store
  /\ store[Head(queue).id].status = APPROVED
  /\ store[Head(queue).id].processedAt # NULL

(* C8: create fails with NotFound when the employee does not exist, else    *)
(* with InvalidInput when startDate is after endDate, else (dates not in    *)
(* the past) with Conflict when the range overlaps an active request of the *)
(* employee; each failure inserts no row and publishes no event.            *)
C8_CreateErrorOrder ==
  [][/\ (last'.op = "create" /\ last'.res.kind = "err" /\ calls' = calls)
        => /\ last'.res.err = "NotFound" <=> last'.emp \notin employees
           /\ last'.res.err = "InvalidDates"
                <=> (last'.emp \in employees /\ last'.s > last'.e)
           /\ store' = store /\ queue' = queue /\ nextId' = nextId
     /\ \A p \in Callers :
          (calls[p].pc = "idle" /\ calls'[p].pc = "check")
          => calls'[p].emp \in employees /\ calls'[p].s <= calls'[p].e
     /\ \A p \in Callers :
          (calls[p].pc = "check" /\ calls'[p] # calls[p])
          => IF ActiveOverlaps(store, calls[p].emp, calls[p].s, calls[p].e) # {}
             THEN /\ last'.res = Err("Conflict")
                  /\ store' = store /\ queue' = queue /\ nextId' = nextId
             ELSE last'.res.err # "Conflict"]_vars

\* a request naming a missing employee and inverted dates was answered NotFound
C8_NotFoundBeforeDates ==
  /\ last.op = "create"
  /\ last.res.err = "NotFound"
  /\ last.s > last.e
  /\ last.emp \notin employees

(* C9: create rejects a request as past-dated exactly when its startDate is *)
(* a calendar day before the server's current calendar day, at every hour   *)
(* and in every server time zone.                                           *)
C9_PastDateExact ==
  [][/\ (last'.op = "create" /\ last'.res.err = "PastDate")
        => last'.s < LocalDay(nowH, tz)
     /\ \A p \in Callers :
          (calls[p].pc = "idle" /\ calls'[p].pc = "check")
          => calls'[p].s >= LocalDay(nowH, tz)]_vars

(* C10: cancel fails with NotFound for an unknown id, with Unauthorized     *)
(* when the requesting employee id is not the record's employeeId, with     *)
(* InvalidState for a REJECTED record, the store unchanged in each case;    *)
(* otherwise the record is removed.                                         *)
C10_CancelOutcome ==
  [][last'.op = "cancel"
     => IF last'.id \notin DOMAIN store
        THEN last'.res = Err("NotFound") /\ store' = store
        ELSE IF store[last'.id].employeeId # last'.emp
        THEN last'.res = Err("Unauthorized") /\ store' = store
        ELSE IF store[last'.id].status = REJECTED
        THEN last'.res = Err("InvalidState") /\ store' = store
        ELSE /\ last'.res.kind = "ok"
             /\ DOMAIN store' = DOMAIN store \ {last'.id}
             /\ \A i \in DOMAIN store' : store'[i] = store[i]]_vars

(* C11: updateLeaveRequestStatus fails with NotFound for an unknown id and  *)
(* with InvalidInput for a status outside the four recognised values,       *)
(* changing nothing; otherwise, whatever the current status, it sets the    *)
(* record's status to the given value, sets processedAt, leaves every other *)
(* field and record alone and publishes no event.                           *)
C11_UpdateOutcome ==
  [][last'.op = "update"
     => /\ queue' = queue /\ nextId' = nextId /\ employees' = employees
        /\ IF last'.id \notin DOMAIN store
           THEN last'.res = Err("NotFound") /\ store' = store
           ELSE IF last'.st \notin {PENDING, PENDING_APPROVAL, APPROVED, REJECTED}
           THEN last'.res = Err("InvalidStatus") /\ store' = store
           ELSE /\ last'.res.kind = "ok"
                /\ DOMAIN store' = DOMAIN store
                /\ store'[last'.id] = [store[last'.id] EXCEPT
                                         !.status = last'.st,
                                         !.processedAt = store'[last'.id].processedAt]
                /\ store'[last'.id].processedAt # NULL
                /\ \A i \in DOMAIN store \ {last'.id} : store'[i] = store[i]]_vars

\* a record that had been processed was set back to PENDING by an update
C11_SetBackToPending ==
  /\ last.op = "update"
  /\ last.res.kind = "ok"
  /\ last.st = PENDING
  /\ last.id \in DOMAIN store
  /\ store[last.id].status = PENDING
  /\ store[last.id].processedAt # NULL

(* C12: a "requested" event is published only by a create call that has    *)
(* just inserted its record, once per such call and never by a duplicate;   *)
(* whether or not the publish succeeds the call goes on to return the       *)
(* persisted record as a non-duplicate success, and the store is untouched  *)
(* by the publish and by the return.                                        *)
C12_PublishAfterInsert ==
  [][/\ \A p \in Callers :
          (calls'[p].pc = "publish" /\ calls[p].pc # "publish")
          => /\ calls[p].pc = "insert"
             /\ calls'[p].id \in DOMAIN store' \ DOMAIN store
             /\ queue' = queue
     /\ \A p \in Callers :
          (calls[p].pc = "publish" /\ calls'[p] # calls[p])
          => /\ calls'[p].pc = "refetch"
             /\ calls'[p].id = calls[p].id
             /\ queue' \in {queue, Append(queue, Msg(LEAVE_REQUESTED, calls[p].id))}
             /\ store' = store
     /\ \A p \in Callers :
          (calls[p].pc = "refetch" /\ calls'[p] # calls[p])
          => /\ calls'[p].pc = "idle"
             /\ last'.res.kind = "ok"
             /\ ~last'.res.dup
             /\ calls[p].id \in DOMAIN store => last'.res.id = calls[p].id
             /\ store' = store
             /\ queue' = queue
     /\ (calls' # calls /\ queue' # queue)
        => \E p \in Callers : calls[p].pc = "publish"
     /\ \A k \in 1..Len(queue') :
          queue'[k].rk = LEAVE_REQUESTED => queue'[k].id \in 1..(nextId - 1)]_vars

\* the publish failed: the call is about to return its stored record, which no
\* event announces and the consumer has never handled
C12_PublishLost ==
  \E p \in Callers :
     /\ calls[p].pc = "refetch"
     /\ calls[p].id \in DOMAIN store
     /\ store[calls[p].id].processedAt = NULL
     /\ queue = <<>>
     /\ cpc = "idle"

(* C13: for a candidate range [s,e], s <= e, and a stored request [a,b],    *)
(* a <= b, findOverlapping returns the stored request exactly when it is of *)
(* the given employee, has status APPROVED or PENDING_APPROVAL, and         *)
(* a <= e and s <= b; so [1,5] and [5,8] overlap and [1,5] and [6,8] do not.*)
C13_FindOverlappingExact ==
  last.op = "findOverlapping"
  => \A i \in DOMAIN store :
       (last.res.id = i)
       <=> (/\ store[i].employeeId = last.emp
            /\ store[i].status \in {APPROVED, PENDING_APPROVAL}
            /\ store[i].startDate <= last.e
            /\ last.s <= store[i].endDate)

\* the stored active request [1,5] was found for the candidate [5,8]
C13_BoundaryDayOverlaps ==
  /\ last.op = "findOverlapping"
  /\ last.s = 5 /\ last.e = 8
  /\ last.res.id \in DOMAIN store
  /\ store[last.res.id].startDate = 1
  /\ store[last.res.id].endDate = 5

(* C14: for two parseable dates calculateLeaveDuration is                   *)
(* max(1, whole days from startDate to endDate + 1): 1 for a single day,    *)
(* 2 for day N to N+1, 3 for day N to N+2, never below 1 even when endDate  *)
(* precedes startDate; when a date does not parse the duration is           *)
(* undeterminable and the Auto-Processor changes no status and publishes    *)
(* nothing.                                                                 *)
C14_DurationValue ==
  [][(/\ Delivers
      /\ Head(queue).rk = LEAVE_REQUESTED
      /\ Head(queue).id \in DOMAIN store
      /\ store[Head(queue).id].status = PENDING)
     => LET r == store[Head(queue).id]
            whole == r.endDate - r.startDate
        IN IF r.startDate = InvalidDate \/ r.endDate = InvalidDate
           THEN /\ cpc' = "idle"
                /\ cur' = IdleCur
                /\ store' = store
           ELSE /\ cpc' = "write"
                /\ cur'.duration = (IF whole + 1 > 1 THEN whole + 1 ELSE 1)
                /\ cur'.duration >= 1
                /\ whole = 0 => cur'.duration = 1
                /\ whole = 1 => cur'.duration = 2
                /\ whole = 2 => cur'.duration = 3
                /\ whole < 0 => cur'.duration = 1]_vars

\* a duration of 3 was computed for a request from day 1 to day 3
C14_ThreeDays ==
  /\ cpc = "write"
  /\ cur.duration = 3
  /\ cur.msg.id \in DOMAIN store
  /\ store[cur.msg.id].startDate = 1
  /\ store[cur.msg.id].endDate = 3

RECURSIVE SumInclusiveDays(_, _)
SumInclusiveDays(st, ids) ==
  IF ids = {} THEN 0
  ELSE LET i == CHOOSE j \in ids : TRUE
       IN InclusiveDays(st[i].startDate, st[i].endDate) + SumInclusiveDays(st, ids \ {i})

\* the requests of employee emp created within calendar year `year`
CreatedInYear(st, emp, year, zone) ==
  {i \in DOMAIN st : /\ st[i].employeeId = emp
                     /\ StartOfYear(year, zone) <= st[i].createdAt
                     /\ st[i].createdAt < StartOfYear(year + 1, zone)}

(* C15: over the requests selected for the year, the statistics are         *)
(* total = their number, approved = number APPROVED, pending = number       *)
(* PENDING or PENDING_APPROVAL, rejected = number REJECTED, totalDays = sum *)
(* of the inclusive spans of the APPROVED ones, total = approved + pending  *)
(* + rejected; a missing employee gives NotFound.                           *)
C15_StatsAggregation ==
  last.op = "stats"
  => IF last.emp \notin employees
     THEN last.res = Err("NotFound")
     ELSE LET sel == SelectForYear(store, last.emp, last.year, tz)
              n == last.res.stats
          IN /\ last.res.kind = "ok"
             /\ n.total = Cardinality(sel)
             /\ n.approved = Cardinality({i \in sel : store[i].status = APPROVED})
             /\ n.pending = Cardinality({i \in sel : store[i].status \in {PENDING, PENDING_APPROVAL}})
             /\ n.rejected = Cardinality({i \in sel : store[i].status = REJECTED})
             /\ n.totalDays = SumInclusiveDays(store, {i \in sel : store[i].status = APPROVED})
             /\ n.total = n.approved + n.pending + n.rejected

\* one APPROVED request of 3 days, one pending and one REJECTED were reported
C15_OneOfEach ==
  /\ last.op = "stats"
  /\ last.res.stats = Stats(3, 1, 1, 1, 3)
  /\ \E i \in DOMAIN store : store[i].status = PENDING_APPROVAL /\ store[i].employeeId = last.emp

(* C16: the statistics for a year count exactly the employee's requests     *)
(* created from 1 January 00:00 up to the end of 31 December of that year.  *)
C16_WholeYearSelected ==
  (last.op = "stats" /\ last.res.kind = "ok")
  => last.res.stats.total = Cardinality(CreatedInYear(store, last.emp, last.year, tz))

(* C17: every record inserted by createLeaveRequest has status PENDING and  *)
(* a null processedAt right after the insert, whatever other fields the     *)
(* request data carried.                                                    *)
C17_CreatedPendingUnprocessed ==
  [][\A i \in DOMAIN store' \ DOMAIN store :
        /\ store'[i].status = PENDING
        /\ store'[i].processedAt = NULL]_vars

(* C18: in every reachable state each stored leave request's employeeId is  *)
(* the id of an existing employee: no record is inserted for a missing      *)
(* employee, also when the employee is deleted between the existence check  *)
(* and the insert, and deleting an employee removes the employee's requests.*)
C18_NoOrphanRequests ==
  \A i \in DOMAIN store : store[i].employeeId \in employees

\* the employee was deleted while a create was between its existence check and
\* its insert: the insert was refused and the employee's earlier requests are gone
C18_InsertRefused ==
  /\ last.op = "create"
  /\ last.res.err = "ForeignKey"
  /\ last.emp \notin employees
  /\ nextId > 1
  /\ store = <<>>

\* the Auto-Processor's write to a record that is still stored
ProcessorWrites == cpc = "write" /\ cpc' # "write" /\ cur.msg.id \in DOMAIN store

C20_ManualUpdateKept ==
  [][(ProcessorWrites /\ store[cur.msg.id].status # PENDING)
     => store'[cur.msg.id].status = store[cur.msg.id].status]_vars

(* ---------------- the message callback: retries, settlement ------------ *)
\* deliveries of the message that was first published with id i
DeliveriesOf(i) == {k \in DOMAIN deliveries : deliveries[k].msg.id = i}

\* re-publications of message m that exist: timers pending for it, and its
\* copies with the retry count one higher, queued or delivered
Republications(m) ==
  LET again == [m EXCEPT !.retry = @ + 1]
  IN Cardinality({k \in DOMAIN timers : timers[k] = m})
     + Cardinality({k \in DOMAIN queue : queue[k] = again})
     + Cardinality({k \in DOMAIN deliveries : deliveries[k].msg = again})

\* C21: a message is handled at most MAX_RETRIES + 1 times, however often its
\* handler fails; a failed attempt with retry count below MAX_RETRIES has
\* exactly one re-publication with the count one higher; the attempt at retry
\* count MAX_RETRIES, and an acknowledged attempt, have none
C21_RetriesBounded ==
  /\ \A i \in Ids : Cardinality(DeliveriesOf(i)) <= MAX_RETRIES + 1
  /\ \A k \in DOMAIN deliveries :
        LET d == deliveries[k]
        IN /\ d.msg.retry <= MAX_RETRIES
           /\ (d.nack > 0 /\ d.msg.retry < MAX_RETRIES) => Republications(d.msg) = 1
           /\ (d.nack > 0 /\ d.msg.retry >= MAX_RETRIES) => Republications(d.msg) = 0
           /\ d.nack = 0 => Republications(d.msg) = 0

\* a message failed on every attempt: it was handled MAX_RETRIES + 1 times, the
\* last attempt was nacked at the bound, and nothing of it is left
C21_FailedToTheBound ==
  \E i \in Ids :
    /\ Cardinality(DeliveriesOf(i)) = MAX_RETRIES + 1
    /\ \A k \in DeliveriesOf(i) : deliveries[k].nack = 1
    /\ \A k \in DOMAIN queue : queue[k].id # i
    /\ \A k \in DOMAIN timers : timers[k].id # i

\* C22: at most one message callback is in progress and at most one delivery
\* is unacknowledged: the broker delivers the next message only after the
\* previous one was acked or nacked
C22_OneMessageAtATime ==
  /\ Cardinality({k \in DOMAIN deliveries : deliveries[k].running}) <= 1
  /\ Cardinality(Unacked) <= 1

\* a message waits in the queue while the callback handles another one
C22_NextMessageWaits ==
  /\ queue # <<>>
  /\ \E k \in DOMAIN deliveries : deliveries[k].running /\ deliveries[k].msg.id # Head(queue).id

\* C28: a delivery whose callback is in progress has neither ack nor nack, and
\* a delivery whose callback ended has exactly one of them, on every path:
\* success, failure below the bound, failure at the bound, a body that is not
\* JSON
C28_SettledExactlyOnce ==
  \A k \in DOMAIN deliveries :
    LET d == deliveries[k]
    IN IF d.running THEN d.ack = 0 /\ d.nack = 0 ELSE d.ack + d.nack = 1

\* all four paths were taken
C28_EveryPathTaken ==
  /\ \E k \in DOMAIN deliveries : deliveries[k].ack = 1
  /\ \E k \in DOMAIN deliveries :
        deliveries[k].nack = 1 /\ deliveries[k].msg.json /\ deliveries[k].msg.retry < MAX_RETRIES
  /\ \E k \in DOMAIN deliveries :
        deliveries[k].nack = 1 /\ deliveries[k].msg.retry = MAX_RETRIES
  /\ \E k \in DOMAIN deliveries : deliveries[k].nack = 1 /\ ~deliveries[k].msg.json

Queued(i) == \E k \in DOMAIN queue : queue[k] = Msg(LEAVE_REQUESTED, i)

\* the "requested" event of record i is queued, being handled, or about to be
\* published by the create call that inserted the record
EventPending(i) ==
  \/ Queued(i)
  \/ cpc # "idle" /\ cur.msg.id = i
  \/ \E p \in Callers : calls[p].pc = "publish" /\ calls[p].id = i

(* C24: with the consumer scheduled fairly and no cancellation or manual     *)
(* update, every stored request whose "requested" event is in the queue      *)
(* eventually has status APPROVED or PENDING_APPROVAL; a PENDING request     *)
(* with no event in the queue, in the handler or about to be published       *)
(* (its publish failed) stays PENDING and gets no event.                     *)
C24_PublishedRequestIsProcessed ==
  /\ \A i \in Ids :
        (i \in DOMAIN store /\ Queued(i))
          ~> (i \in DOMAIN store /\ store[i].status \in ActiveStatuses)
  /\ [][\A i \in DOMAIN store :
          (store[i].status = PENDING /\ ~EventPending(i))
          => /\ i \in DOMAIN store'
             /\ store'[i] = store[i]
             /\ ~EventPending(i)']_vars

\* one request was processed after its event was consumed, and another one,
\* whose publish failed, is still PENDING with no event left
C24_ProcessedAndStranded ==
  /\ queue = <<>>
  /\ cpc = "idle"
  /\ \A p \in Callers : calls[p].pc = "idle"
  /\ \E i, j \in DOMAIN store :
        /\ store[i].status = PENDING_APPROVAL /\ store[i].processedAt # NULL
        /\ store[j].status = PENDING /\ store[j].processedAt = NULL

C26_ApprovedEventHasApprovedRecord ==
  [][(cpc = "publish" /\ queue' = Append(queue, Msg(LEAVE_APPROVED, cur.msg.id)))
     => /\ cur.msg.id \in DOMAIN store
        /\ store[cur.msg.id].status = APPROVED]_vars

(* C27: a create that returns a record flagged duplicate returns a record of *)
(* the same employeeId, startDate and endDate as the request just submitted. *)
C27_DuplicateMatchesRequest ==
  (last.op = "create" /\ last.res.kind = "ok" /\ last.res.dup)
  => /\ last.res.id \in DOMAIN store
     /\ store[last.res.id].employeeId = last.emp
     /\ store[last.res.id].startDate = last.s
     /\ store[last.res.id].endDate = last.e

\* requests of client key that limiter name let through at the instants lo..hi
RECURSIVE PassedBetween(_, _, _, _)
PassedBetween(key, name, lo, hi) ==
  IF lo > hi THEN 0 ELSE Passed(key, name, lo) + PassedBetween(key, name, lo + 1, hi)

\* the last step was a request of client key that needed a new window
StartsWindow(key) == last'.op = "rateLimiter" /\ last'.id = key
                     /\ NeedsNewWindow(requestCounts, key, nowMs)

(* C30: per client key and limiter, the requests let through within one      *)
(* window (from the request that opened it to its reset time) number at most *)
(* maxRequests, and once that many went through every further request in    *)
(* the window is answered 429; a request with no entry or after the reset    *)
(* time opens a new window with count 1; the cleanup removes only entries    *)
(* whose reset time has passed and leaves the others as they are.            *)
C30_RateLimitPerWindow ==
  [][/\ \A key \in DOMAIN requestCounts', lim \in Limiters :
          PassedBetween(key, lim.name, requestCounts'[key].since, requestCounts'[key].resetTime)
            <= lim.maxRequests
     /\ \A key \in RateClients, lim \in Limiters :
          (/\ last'.op = "rateLimiter" /\ last'.id = key /\ last'.st = lim.name
           /\ ~NeedsNewWindow(requestCounts, key, nowMs)
           /\ PassedBetween(key, lim.name, requestCounts[key].since, requestCounts[key].resetTime)
                >= lim.maxRequests)
          => last'.res.kind = "err"
     /\ \A key \in RateClients :
          StartsWindow(key)
          => /\ requestCounts'[key].count = 1
             /\ requestCounts'[key].since = nowMs
             /\ requestCounts'[key].resetTime > nowMs
             /\ last'.res.kind = "ok"
     /\ \A key \in DOMAIN requestCounts :
          IF key \in DOMAIN requestCounts'
          THEN last'.op # "rateLimiter" => requestCounts'[key] = requestCounts[key]
          ELSE requestCounts[key].resetTime < nowMs]_vars

\* a client was just answered 429 by the standard limiter in a window in which
\* that limiter had let StandardMax of its requests through, while the entry
\* of an earlier window of another client has been swept
C30_LimitReached ==
  /\ last.op = "rateLimiter" /\ last.st = "standard" /\ last.res.kind = "err"
  /\ last.id \in DOMAIN requestCounts
  /\ PassedBetween(last.id, "standard", requestCounts[last.id].since,
                   requestCounts[last.id].resetTime) = StandardMax
  /\ \E key \in RateClients :
        /\ key \notin DOMAIN requestCounts
        /\ \E t \in 0..MaxNow : Passed(key, "strict", t) > 0

(* C29: a cached channel belongs to the cached connection, which is open, so *)
(* that after a connection was lost and re-established no channel of the     *)
(* dead connection is handed out; and once closeConnection has run both      *)
(* cached handles are null and stay null.                                    *)
C29_ChannelOnCachedConnection ==
  /\ channel # NULL
       => /\ connection # NULL
          /\ channel = ChannelOn(connection)
          /\ sockets[connection]
  /\ closed => (connection = NULL /\ channel = NULL)

====
